---- MODULE Spec2Model ----
(***************************************************************************)
(* Model of the command resolution and execution engine of `atomic`:       *)
(*   src/src/toml.rs     find_key_in_tables, load_and_validate_toml        *)
(*   src/src/schema.rs   validate_toml_schema and its helpers              *)
(*   src/src/command.rs  run_command, execute_resolved_command,            *)
(*                       resolve_and_run_subcommand, run_table_command     *)
(*   src/src/git.rs      send_command                                      *)
(* and of its plugin runner:                                               *)
(*   src/src/plugin.rs   resolve_script_path and its helpers, run_plugin,  *)
(*                       run_plugin_silent, run_plugin_stream              *)
(*                                                                         *)
(* A TOML value is a record [type, s, elems, entries].  A table keeps its  *)
(* entries as a sequence of <<key, value>> pairs with distinct keys: the   *)
(* order of the sequence is the iteration order of toml::value::Table.     *)
(***************************************************************************)
EXTENDS Naturals, Sequences, FiniteSets, TLC

VARIABLES
    platform,   \* target_os the binary was built for: "unix" or "windows"
    disk,       \* the atomic.toml file: [exists, parses, doc]
    cmd,        \* the command name given on the command line
    pc,         \* "start", "running", "done", "overflow" or "panicked"
    stack,      \* chains being iterated, innermost last
    trace,      \* every run_command / resolve / send_command / eprintln, in order
    script,     \* the script reference handed to resolve_script_path
    preferred,  \* the preferred extension handed to it: [some, v]
    files,      \* the paths that exist in the file system
    resolved,   \* what resolve_script_path returned: [done, ok, v, err, warning]
    plugin,     \* the plugin name handed to run_plugin
    ppc,        \* where the thread calling run_plugin is
    child,      \* the spawned plugin process
    pipe,       \* the lines in flight in the stdout and the stderr pipe
    drain,      \* the two threads reading the pipes
    terminal,   \* what the atomic process has written to its stdout and stderr
    logfile,    \* what has been written to atomic-logs/<plugin>.log
    status,     \* the exit status run_plugin looks at: "none" or an outcome
    result,     \* what run_plugin returned: [done, ok, err, code]
    earlier,    \* the traces of the earlier runs of the same command line
    autocommit, \* what start_cli did about the Git auto-commit
    init,       \* start_init: template, answer, and atomic.toml before and after
    repo,       \* summarize_and_push_commits: the branch, the work tree, the remote
    branch,     \* parse_branch_name: the name and what was returned for it
    tui         \* start_tui: the command list, the selection, the build

engine_vars == <<cmd, pc, stack, trace>>

resolver_vars == <<script, preferred, files, resolved>>

runner_vars == <<plugin, ppc, child, pipe, drain, terminal, logfile, status, result>>

other_vars == <<earlier, autocommit, init, repo, branch, tui>>

vars == <<platform, disk, engine_vars, resolver_vars, runner_vars, other_vars>>

\* Capacity of the call stack, counted in nested chains.
MaxDepth == 4

-----------------------------------------------------------------------------
(* toml::Value *)

Str(s) == [type |-> "string", s |-> s, elems |-> <<>>, entries |-> <<>>]

Scalar(t) == [type |-> t, s |-> "", elems |-> <<>>, entries |-> <<>>]

Arr(es) == [type |-> "array", s |-> "", elems |-> es, entries |-> <<>>]

Tab(es) == [type |-> "table", s |-> "", elems |-> <<>>, entries |-> es]

\* Option<T>
None == [some |-> FALSE, v |-> Scalar("none")]

Some(v) == [some |-> TRUE, v |-> v]

\* Map::contains_key
contains_key(table, key) ==
    \E i \in 1..Len(table.entries) : table.entries[i][1] = key

\* Map::get
get(table, key) ==
    IF contains_key(table, key)
    THEN Some(table.entries[CHOOSE i \in 1..Len(table.entries) :
                                table.entries[i][1] = key][2])
    ELSE None

\* Value::get(key): None on anything that is not a table
value_get(v, key) == IF v.type = "table" THEN get(v, key) ELSE None

\* Option<&Value>::and_then(|v| v.as_str())
as_str(opt) ==
    IF opt.some /\ opt.v.type = "string" THEN [some |-> TRUE, v |-> opt.v.s]
    ELSE [some |-> FALSE, v |-> ""]

\* arr.iter().all(|item| item.is_str())
all_str(arr) == \A i \in 1..Len(arr.elems) : arr.elems[i].type = "string"

-----------------------------------------------------------------------------
(* toml.rs: find_key_in_tables *)

NotFound == [found |-> FALSE, section |-> "", value |-> None]

Found(section, value) == [found |-> TRUE, section |-> section, value |-> value]

\* Mutant: the nested sections are searched before the root level.
find_key_nested_first(parsed_toml, key) ==
    IF parsed_toml.type # "table" THEN NotFound
    ELSE
      LET table == parsed_toml
          hits  == {i \in 1..Len(table.entries) :
                       /\ table.entries[i][2].type = "table"
                       /\ contains_key(table.entries[i][2], key)}
      IN  IF hits # {}
          THEN LET i == CHOOSE h \in hits : \A g \in hits : h <= g
               IN  Found(table.entries[i][1], get(table.entries[i][2], key))
          ELSE IF contains_key(table, key) THEN Found(key, get(table, key))
          ELSE NotFound

\* Mutant: the lookup keeps state between runs and finds nothing from the
\* second run on.
find_key_first_run_only(parsed_toml, key) ==
    IF earlier = <<>> THEN find_key_nested_first(parsed_toml, key) ELSE NotFound

find_key_in_tables(parsed_toml, key) ==
    IF parsed_toml.type # "table" THEN NotFound
    ELSE
      LET table  == parsed_toml
          hits   == {i \in 1..Len(table.entries) :
                        /\ table.entries[i][2].type = "table"
                        /\ contains_key(table.entries[i][2], key)}
          custom == get(table, "custom")
      IN  \* the key at the root level
          IF contains_key(table, key) THEN Found(key, get(table, key))
          \* for (k, v) in table: the first nested table holding the key
          ELSE IF hits # {}
          THEN LET i == CHOOSE h \in hits : \A g \in hits : h <= g
               IN  Found(table.entries[i][1], get(table.entries[i][2], key))
          \* the explicit check of "custom"
          ELSE IF /\ custom.some
                  /\ custom.v.type = "table"
                  /\ contains_key(custom.v, key)
          THEN Found("custom", get(custom.v, key))
          ELSE NotFound

-----------------------------------------------------------------------------
(* schema.rs.  The errors are kept as a set of <<kind, entry, key>>: only  *)
(* whether there is any decides what load_and_validate_toml returns.       *)

\* str::to_lowercase on the strings that occur as `command` texts
to_lowercase(s) == IF s = "TODO" THEN "todo" ELSE s

placeholders == {"command", "todo", "fixme", "placeholder"}

validate_custom_entry(key, map) ==
    LET command == get(map, "command")
        valid(k, v) ==
            \/ k = "command" /\ v.type = "string"
            \/ k = "command" /\ v.type = "array" /\ all_str(v)
            \/ k = "before" /\ v.type = "string"
            \/ k = "after" /\ v.type = "string"
            \/ k = "desc" /\ v.type = "string"
            \/ k = "desc" /\ v.type = "array" /\ all_str(v)
    IN  (IF ~contains_key(map, "command")
         THEN {<<"is missing 'command'", key, "">>} ELSE {})
        \cup {<<"must be a string or array of strings", key, map.entries[i][1]>> :
                i \in {j \in 1..Len(map.entries) :
                         ~valid(map.entries[j][1], map.entries[j][2])}}
        \cup (IF /\ command.some
                 /\ command.v.type = "string"
                 /\ to_lowercase(command.v.s) \in placeholders
              THEN {<<"looks like a placeholder", key, command.v.s>>} ELSE {})

validate_custom_section(custom_table) ==
    UNION {LET key   == custom_table.entries[i][1]
               entry == custom_table.entries[i][2]
           IN  IF entry.type = "string" THEN {}
               ELSE IF entry.type = "table" THEN validate_custom_entry(key, entry)
               ELSE {<<"must be a string or a table", key, "">>} :
           i \in 1..Len(custom_table.entries)}

validate_plugin_entry(name, map) ==
    LET valid(k, v) ==
            \/ k = "script" /\ v.type = "string"
            \/ k = "args" /\ v.type = "array" /\ all_str(v)
            \/ k = "preferred" /\ v.type = "string"
            \/ k = "silent" /\ v.type = "boolean"
            \/ k = "desc" /\ v.type = "string"
            \/ k = "desc" /\ v.type = "array" /\ all_str(v)
    IN  (IF ~contains_key(map, "script")
         THEN {<<"is missing required 'script'", name, "">>} ELSE {})
        \cup {<<"has invalid key", name, map.entries[i][1]>> :
                i \in {j \in 1..Len(map.entries) :
                         ~valid(map.entries[j][1], map.entries[j][2])}}

validate_plugin_section(plugin_table) ==
    UNION {LET name  == plugin_table.entries[i][1]
               entry == plugin_table.entries[i][2]
           IN  IF entry.type = "table" THEN validate_plugin_entry(name, entry)
               ELSE {<<"must be a table", name, "">>} :
           i \in 1..Len(plugin_table.entries)}

\* The errors of validate_toml_schema: Ok(()) is the empty set.
validate_toml_schema(toml) ==
    LET custom_section == value_get(toml, "custom")
        plugin_section == value_get(toml, "plugin")
    IN  (IF ~custom_section.some THEN {}
         ELSE IF custom_section.v.type = "table"
         THEN validate_custom_section(custom_section.v)
         ELSE {<<"[custom] must be a table", "", "">>})
        \cup
        (IF ~plugin_section.some THEN {}
         ELSE IF plugin_section.v.type = "table"
         THEN validate_plugin_section(plugin_section.v)
         ELSE {<<"[plugin] must be a table", "", "">>})

-----------------------------------------------------------------------------
(* toml.rs: reading the file *)

\* toml::from_str(&contents).ok()
get_toml_content(file) == IF file.parses THEN Some(file.doc) ELSE None

\* Some(toml) only for a file that exists, parses and passes the schema;
\* `failed` names the step that printed the error otherwise.
load_and_validate_toml(file) ==
    IF ~file.exists THEN [some |-> FALSE, v |-> file.doc, failed |-> "not found"]
    ELSE IF ~get_toml_content(file).some
    THEN [some |-> FALSE, v |-> file.doc, failed |-> "Failed to parse"]
    ELSE IF validate_toml_schema(get_toml_content(file).v) # {}
    THEN [some |-> FALSE, v |-> file.doc, failed |-> "failed validation"]
    ELSE [some |-> TRUE, v |-> get_toml_content(file).v, failed |-> ""]

-----------------------------------------------------------------------------
(* git.rs: send_command *)

\* What the spawned shell does: exits with zero, exits with another
\* status, or cannot be spawned at all.
Outcomes == {"exit0", "exit1", "spawn_error"}

\* cmd.trim().is_empty(), on the strings of the model
is_blank(s) == s \in {"", " "}

\* cmd.replace('\'', "\""), on the strings of the model
replace_quotes(s) == IF s = "echo 'ok'" THEN "echo \"ok\"" ELSE s

\* Mutant: the spawn result is unwrapped, so a spawn failure panics.
send_command_expect(text, os, oc) ==
    IF is_blank(text)
    THEN [spawned |-> FALSE, program |-> "", line |-> "",
          report |-> "No command provided or unknown command.", panics |-> FALSE]
    ELSE [spawned |-> oc # "spawn_error",
          program |-> IF os = "windows" THEN "cmd /C" ELSE "sh -c",
          line    |-> IF os = "windows" THEN replace_quotes(text) ELSE text,
          report  |-> IF oc = "exit0" THEN "" ELSE "Command failed with status code",
          panics  |-> oc = "spawn_error"]

\* Mutant: a blank command is an error that ends the run.
send_command_blank_fails(text, os, oc) ==
    IF is_blank(text)
    THEN [spawned |-> FALSE, program |-> "", line |-> "",
          report |-> "No command provided or unknown command.", panics |-> TRUE]
    ELSE [spawned |-> oc # "spawn_error",
          program |-> IF os = "windows" THEN "cmd /C" ELSE "sh -c",
          line    |-> IF os = "windows" THEN replace_quotes(text) ELSE text,
          report  |-> CASE oc = "exit0" -> ""
                        [] oc = "exit1" -> "Command failed with status code"
                        [] OTHER -> "Failed to execute command",
          panics  |-> FALSE]

\* One call send_command(text) on a build for `os`, the shell ending in `oc`.
send_command(text, os, oc) ==
    IF is_blank(text)
    THEN [spawned |-> FALSE, program |-> "", line |-> "",
          report |-> "No command provided or unknown command.", panics |-> FALSE]
    ELSE [spawned |-> oc # "spawn_error",
          program |-> IF os = "windows" THEN "cmd /C" ELSE "sh -c",
          line    |-> IF os = "windows" THEN replace_quotes(text) ELSE text,
          report  |-> CASE oc = "exit0" -> ""
                        [] oc = "exit1" -> "Command failed with status code"
                        [] OTHER -> "Failed to execute command",
          panics  |-> FALSE]

-----------------------------------------------------------------------------
(* command.rs.  A function's effects are the sequence of its send_command  *)
(* and eprintln! calls, in program order.                                  *)

SendOp(text, site) == [op |-> "send", text |-> text, site |-> site]

EprintOp(msg, label) == [op |-> "eprintln", text |-> msg, site |-> label]

\* Mutant: the `after` hook runs before the main command.
run_table_command_after_first(table, label) ==
    (IF as_str(get(table, "before")).some
     THEN <<SendOp(as_str(get(table, "before")).v, "before")>> ELSE <<>>)
    \o (IF as_str(get(table, "after")).some
        THEN <<SendOp(as_str(get(table, "after")).v, "after")>> ELSE <<>>)
    \o (IF as_str(get(table, "command")).some
        THEN <<SendOp(as_str(get(table, "command")).v, "command")>>
        ELSE <<EprintOp("Missing 'command' in table", label)>>)

run_table_command(table, label) ==
    LET before == as_str(get(table, "before"))
        main   == as_str(get(table, "command"))
        after  == as_str(get(table, "after"))
    IN  (IF before.some THEN <<SendOp(before.v, "before")>> ELSE <<>>)
        \o (IF main.some THEN <<SendOp(main.v, "command")>>
            ELSE <<EprintOp("Missing 'command' in table", label)>>)
        \o (IF after.some THEN <<SendOp(after.v, "after")>> ELSE <<>>)

\* What execute_resolved_command does with a value: the effects it runs
\* itself, and the chain it iterates (is_chain) element by element.
Direct(kind, ops) == [kind |-> kind, ops |-> ops, is_chain |-> FALSE, chain |-> <<>>]

Chain(kind, elems) == [kind |-> kind, ops |-> <<>>, is_chain |-> TRUE, chain |-> elems]

\* Mutant: a string value is split into a chain of one element.
execute_resolved_command_string_as_chain(value, cmd_name) ==
    IF ~value.some THEN Direct("unsupported", <<EprintOp("Unsupported command format", cmd_name)>>)
    ELSE IF value.v.type = "string" THEN Chain("array", <<value.v>>)
    ELSE IF value.v.type = "array" THEN Chain("array", value.v.elems)
    ELSE IF value.v.type = "table"
    THEN IF get(value.v, "command").some /\ get(value.v, "command").v.type = "array"
         THEN Chain("table chain", get(value.v, "command").v.elems)
         ELSE Direct("hooks", run_table_command(value.v, cmd_name))
    ELSE Direct("unsupported", <<EprintOp("Unsupported command format", cmd_name)>>)

\* Mutant: the `before` hook of a table is run ahead of its inline chain.
execute_resolved_command_hooked_chain(value, cmd_name) ==
    IF ~value.some THEN Direct("unsupported", <<EprintOp("Unsupported command format", cmd_name)>>)
    ELSE IF value.v.type = "string" THEN Direct("string", <<SendOp(value.v.s, "string")>>)
    ELSE IF value.v.type = "array" THEN Chain("array", value.v.elems)
    ELSE IF value.v.type = "table"
    THEN IF get(value.v, "command").some /\ get(value.v, "command").v.type = "array"
         THEN [kind |-> "table chain",
               ops |-> IF as_str(get(value.v, "before")).some
                       THEN <<SendOp(as_str(get(value.v, "before")).v, "before")>>
                       ELSE <<>>,
               is_chain |-> TRUE,
               chain |-> get(value.v, "command").v.elems]
         ELSE Direct("hooks", run_table_command(value.v, cmd_name))
    ELSE Direct("unsupported", <<EprintOp("Unsupported command format", cmd_name)>>)

execute_resolved_command(value, cmd_name) ==
    IF ~value.some
    THEN Direct("unsupported", <<EprintOp("Unsupported command format", cmd_name)>>)
    \* Simple shell command
    ELSE IF value.v.type = "string"
    THEN Direct("string", <<SendOp(value.v.s, "string")>>)
    \* Array of subcommands or raw strings
    ELSE IF value.v.type = "array"
    THEN Chain("array", value.v.elems)
    ELSE IF value.v.type = "table"
    THEN LET command == get(value.v, "command")
         IN  \* If the command is an array, treat it as a chained sequence
             IF command.some /\ command.v.type = "array"
             THEN Chain("table chain", command.v.elems)
             \* Otherwise run the table as a hook-based command
             ELSE Direct("hooks", run_table_command(value.v, cmd_name))
    \* Unsupported or invalid TOML structure
    ELSE Direct("unsupported", <<EprintOp("Unsupported command format", cmd_name)>>)

\* run_command(name, path) with `file` at the path: what it loaded and what
\* it does with the value it found.
run_command(name, file) ==
    LET loaded == load_and_validate_toml(file)
        hit    == find_key_in_tables(loaded.v, name)
    IN  IF ~loaded.some
        THEN [toml |-> loaded.v,
              plan |-> Direct("load failed", <<EprintOp(loaded.failed, "atomic.toml")>>)]
        ELSE IF ~hit.found
        THEN [toml |-> loaded.v,
              plan |-> Direct("not found", <<EprintOp("Command not found in atomic.toml", name)>>)]
        ELSE [toml |-> loaded.v, plan |-> execute_resolved_command(hit.value, name)]

\* Mutant: an element is never looked up; it always goes to the shell.
resolve_and_run_subcommand_raw(sub_cmd, toml) == "send_command"

\* The function resolve_and_run_subcommand hands sub_cmd to: run_command for
\* a declared string, array or table, send_command for anything else.
resolve_and_run_subcommand(sub_cmd, toml) ==
    LET hit == find_key_in_tables(toml, sub_cmd)
    IN  IF /\ hit.found
           /\ hit.value.some
           /\ hit.value.v.type \in {"string", "array", "table"}
        THEN "run_command"
        ELSE "send_command"

-----------------------------------------------------------------------------
(* The documents and names the engine is run on. *)

\* custom.build = "make all", custom.ci = ["build", "echo done"]
DocCustomCI ==
    Tab(<< <<"custom", Tab(<< <<"build", Str("make all")>>,
                              <<"ci", Arr(<<Str("build"), Str("echo done")>>)>> >>)>> >>)

\* The same two entries at the root level, which the schema does not check.
DocRootCI ==
    Tab(<< <<"build", Str("make all")>>,
           <<"ci", Arr(<<Str("build"), Str("echo done")>>)>> >>)

\* A hook table, and a table whose command is an inline chain.
DocHooks ==
    Tab(<< <<"custom", Tab(<<
        <<"build", Str("make all")>>,
        <<"deploy", Tab(<< <<"after", Str("echo ok")>>,
                           <<"before", Str("make check")>>,
                           <<"command", Str("make deploy")>> >>)>>,
        <<"rel", Tab(<< <<"after", Str("echo ok")>>,
                        <<"before", Str("make check")>>,
                        <<"command", Arr(<<Str("deploy"), Str("build"), Str("echo done")>>)>>,
                        <<"desc", Str("release")>> >>)>> >>)>> >>)

\* Hook texts that are themselves command names, a blank hook, and a
\* command with single quotes.
DocHookNames ==
    Tab(<< <<"custom", Tab(<<
        <<"build", Str("make all")>>,
        <<"deploy", Tab(<< <<"after", Str(" ")>>,
                           <<"before", Str("build")>>,
                           <<"command", Str("echo 'ok'")>> >>)>>,
        <<"ci", Tab(<< <<"command", Arr(<<Str("deploy"), Str("build")>>)>> >>)>> >>)>> >>)

\* A chain that names itself.
DocSelf ==
    Tab(<< <<"custom", Tab(<<
        <<"a", Tab(<< <<"command", Arr(<<Str("echo done"), Str("a")>>)>> >>)>> >>)>> >>)

\* Two chains that name each other.
DocCycle ==
    Tab(<< <<"a", Arr(<<Str("b")>>)>>,
           <<"b", Arr(<<Str("make all"), Str("a")>>)>> >>)

\* Tables without `command` outside [custom], where the schema does not look.
DocNoCommand ==
    Tab(<< <<"default", Tab(<<
        <<"build", Str("make all")>>,
        <<"x", Tab(<< <<"after", Str("echo ok")>>,
                      <<"before", Str("make check")>> >>)>>,
        <<"ci", Arr(<<Str("x"), Str("build")>>)>> >>)>> >>)

\* The same table inside [custom]: the schema rejects the document.
DocCustomNoCommand ==
    Tab(<< <<"custom", Tab(<<
        <<"build", Str("make all")>>,
        <<"x", Tab(<< <<"after", Str("echo ok")>>,
                      <<"before", Str("make check")>> >>)>> >>)>> >>)

\* A placeholder command: the schema rejects the document.
DocPlaceholder ==
    Tab(<< <<"custom", Tab(<<
        <<"build", Tab(<< <<"command", Str("TODO")>> >>)>> >>)>> >>)

\* Integer, float and boolean values, alone and named by a chain.
DocScalars ==
    Tab(<< <<"n", Scalar("integer")>>,
           <<"ci", Arr(<<Str("n"), Str("echo done"), Str("f"), Str("x")>>)>>,
           <<"default", Tab(<< <<"f", Scalar("float")>>,
                               <<"x", Scalar("boolean")>> >>)>> >>)

\* Strings that are names of other commands, a blank element and an
\* element that is not a string.
DocStrings ==
    Tab(<< <<"a", Str("b")>>,
           <<"b", Str("echo done")>>,
           <<"build", Str("a")>>,
           <<"ci", Arr(<<Str("a"), Scalar("integer"), Str(""), Str("echo 'ok'"),
                         Str("build"), Str("x")>>)>>,
           <<"x", Arr(<<Str("b"), Str("make all")>>)>> >>)

\* A plugin entry without `script`: the schema rejects the document.
DocBadPlugin ==
    Tab(<< <<"custom", Tab(<< <<"build", Str("make all")>> >>)>>,
           <<"plugin", Tab(<< <<"fmt", Tab(<< <<"silent", Scalar("boolean")>> >>)>> >>)>> >>)

\* The key "build" at the root (or not) and in the sections "alpha" and
\* "custom" (a table holding it, a table without it, or no table), the two
\* sections in either order.  Each place holds its own text.
Shapes == {"has", "lacks", "scalar"}

Section(name, shape) ==
    IF shape = "has"
    THEN <<name, Tab(<< <<"build", Str(name)>>, <<"deploy", Str("make deploy")>> >>)>>
    ELSE IF shape = "lacks"
    THEN <<name, Tab(<< <<"deploy", Str("make deploy")>> >>)>>
    ELSE <<name, Str("echo ok")>>

PlacedDocs ==
    {Tab((IF root THEN << <<"build", Str("root")>> >> ELSE <<>>)
         \o (IF flip THEN <<Section("custom", c), Section("alpha", a)>>
                     ELSE <<Section("alpha", a), Section("custom", c)>>)) :
        root \in BOOLEAN, flip \in BOOLEAN, a \in Shapes, c \in Shapes \ {"scalar"}}

Docs ==
    {DocCustomCI, DocRootCI, DocHooks, DocHookNames, DocSelf, DocCycle,
     DocNoCommand, DocCustomNoCommand, DocPlaceholder, DocScalars, DocStrings,
     DocBadPlugin}
    \cup PlacedDocs

Names == {"ci", "build", "deploy", "rel", "a", "x", "n", "custom", "missing"}

\* The file is absent, is not TOML, or holds one of the documents.
Files ==
    {[exists |-> FALSE, parses |-> FALSE, doc |-> Tab(<<>>)],
     [exists |-> TRUE, parses |-> FALSE, doc |-> Tab(<<>>)]}
    \cup {[exists |-> TRUE, parses |-> TRUE, doc |-> d] : d \in Docs}

-----------------------------------------------------------------------------
(* The state machine. *)

Event(ev, text, site, run, out, line) ==
    [ev |-> ev, text |-> text, site |-> site, run |-> run, out |-> out, line |-> line]

Frame(run, name, toml, chain) ==
    [run |-> run, name |-> name, toml |-> toml, chain |-> chain, idx |-> 1]

\* The number of run_command calls made so far.
Runs == Len(SelectSeq(trace, LAMBDA e : e.ev = "run_command"))

\* The effects `ops` of call `run`, in order, the i-th shell ending in
\* outs[i]; a panic ends the process there.
RECURSIVE Perform(_, _, _, _)
Perform(ops, outs, run, i) ==
    IF i > Len(ops) THEN [events |-> <<>>, panicked |-> FALSE]
    ELSE IF ops[i].op = "eprintln"
    THEN LET rest == Perform(ops, outs, run, i + 1)
         IN  [events |-> <<Event("eprintln", ops[i].text, ops[i].site, run, "", "")>>
                         \o rest.events,
              panicked |-> rest.panicked]
    ELSE LET res == send_command(ops[i].text, platform, outs[i])
             e   == Event("send", ops[i].text, ops[i].site, run,
                          IF res.spawned THEN outs[i]
                          ELSE IF res.program = "" THEN "blank" ELSE "spawn_error",
                          IF res.program = "" THEN "" ELSE res.line)
         IN  IF res.panics THEN [events |-> <<e>>, panicked |-> TRUE]
             ELSE LET rest == Perform(ops, outs, run, i + 1)
                  IN  [events |-> <<e>> \o rest.events, panicked |-> rest.panicked]

\* One call run_command(name, "atomic.toml") made with `below` as the
\* chains still being iterated by its callers.
Call(name, site, below, prefix) ==
    LET r   == run_command(name, disk)
        run == Runs + 1
    IN  \E outs \in [1..Len(r.plan.ops) -> Outcomes] :
          LET done == Perform(r.plan.ops, outs, run, 1)
              next == IF r.plan.is_chain
                      THEN Append(below, Frame(run, name, r.toml, r.plan.chain))
                      ELSE below
          IN  /\ trace' = trace \o prefix
                            \o <<Event("run_command", name, site, run, r.plan.kind, "")>>
                            \o done.events
              /\ stack' = IF done.panicked THEN <<>> ELSE next
              /\ pc' = IF done.panicked THEN "panicked"
                       ELSE IF next = <<>> THEN "done" ELSE "running"

\* resolve_script_path has not been called.
Unresolved ==
    [done |-> FALSE, ok |-> FALSE, v |-> [program |-> <<>>, args |-> <<>>],
     err |-> "", warning |-> <<>>]

resolver_idle ==
    /\ script = <<>>
    /\ preferred = [some |-> FALSE, v |-> ""]
    /\ files = {}
    /\ resolved = Unresolved

Streams == {"stdout", "stderr"}

\* No plugin process has been spawned.
NoChild ==
    [state |-> "none", cap |-> 0, command |-> [program |-> <<>>, args |-> <<>>],
     silent |-> FALSE, sent |-> [s \in Streams |-> <<>>], open |-> FALSE,
     status |-> [some |-> FALSE, v |-> 0]]

\* run_plugin has not returned.
NoResult ==
    [done |-> FALSE, ok |-> FALSE, panics |-> FALSE, err |-> "",
     code |-> [some |-> FALSE, v |-> 0]]

\* The state of the runner before run_plugin is called
runner_at_rest ==
    /\ ppc = "idle"
    /\ child = NoChild
    /\ pipe = [s \in Streams |-> <<>>]
    /\ drain = [s \in Streams |-> "none"]
    /\ terminal = <<>>
    /\ logfile = <<>>
    /\ status = "none"
    /\ result = NoResult

runner_idle == plugin = "" /\ runner_at_rest

\* start_init, summarize_and_push_commits, parse_branch_name and start_tui
\* have not been called; nothing ran before and nothing was committed.
NotInitialized ==
    [state |-> "idle", template |-> "default", answer |-> <<>>, before |-> "absent",
     content |-> "absent"]

NoRepo ==
    [state |-> "idle", before |-> <<>>, commits |-> <<>>, index |-> 0, worktree |-> 0,
     message |-> "", remote |-> <<>>, pushes |-> 0]

NoBranch == [done |-> FALSE, name |-> <<>>, ok |-> FALSE, parts |-> <<>>]

NoTui ==
    [state |-> "idle", build |-> "debug", len |-> 0, selected |-> 0, popup |-> 0,
     shown |-> FALSE]

others_idle ==
    /\ earlier = <<>>
    /\ autocommit = "none"
    /\ init = NotInitialized
    /\ repo = NoRepo
    /\ branch = NoBranch
    /\ tui = NoTui

Init ==
    /\ platform \in {"unix", "windows"}
    /\ disk \in Files
    /\ cmd \in Names
    /\ pc = "start"
    /\ stack = <<>>
    /\ trace = <<>>
    /\ resolver_idle
    /\ runner_idle
    /\ others_idle

\* start_cli: run_command(cmd, "atomic.toml")
Invoke ==
    /\ pc = "start"
    /\ Call(cmd, "top", <<>>, <<>>)
    /\ UNCHANGED <<platform, disk, cmd, resolver_vars, runner_vars, other_vars>>

Top == stack[Len(stack)]

HasNext == pc = "running" /\ stack # <<>> /\ Top.idx <= Len(Top.chain)

\* The callers' chains once the current element has been taken.
Advanced == [stack EXCEPT ![Len(stack)].idx = @ + 1]

\* for val in chain: val.as_str() is None, the element is passed over
SkipElement ==
    /\ HasNext
    /\ Top.chain[Top.idx].type # "string"
    /\ stack' = Advanced
    /\ UNCHANGED <<platform, disk, cmd, pc, trace, resolver_vars, runner_vars, other_vars>>

\* resolve_and_run_subcommand: the element is a declared command
RunNested ==
    /\ HasNext
    /\ Top.chain[Top.idx].type = "string"
    /\ resolve_and_run_subcommand(Top.chain[Top.idx].s, Top.toml) = "run_command"
    /\ Len(stack) < MaxDepth
    /\ Call(Top.chain[Top.idx].s, "nested", Advanced,
            <<Event("resolve", Top.chain[Top.idx].s, "", Top.run, "nested", "")>>)
    /\ UNCHANGED <<platform, disk, cmd, resolver_vars, runner_vars, other_vars>>

\* The same call with no room left on the stack: the process is killed.
Overflow ==
    /\ HasNext
    /\ Top.chain[Top.idx].type = "string"
    /\ resolve_and_run_subcommand(Top.chain[Top.idx].s, Top.toml) = "run_command"
    /\ Len(stack) >= MaxDepth
    /\ trace' = trace \o
          <<Event("resolve", Top.chain[Top.idx].s, "", Top.run, "nested", ""),
            Event("run_command", Top.chain[Top.idx].s, "nested", Runs + 1, "overflow", "")>>
    /\ stack' = Advanced
    /\ pc' = "overflow"
    /\ UNCHANGED <<platform, disk, cmd, resolver_vars, runner_vars, other_vars>>

\* resolve_and_run_subcommand: the element goes to the shell as it is
RunLiteral ==
    /\ HasNext
    /\ Top.chain[Top.idx].type = "string"
    /\ resolve_and_run_subcommand(Top.chain[Top.idx].s, Top.toml) = "send_command"
    /\ \E oc \in Outcomes :
         LET done == Perform(<<SendOp(Top.chain[Top.idx].s, "literal")>>,
                             <<oc>>, Top.run, 1)
         IN  /\ trace' = trace \o
                   <<Event("resolve", Top.chain[Top.idx].s, "", Top.run, "literal", "")>>
                   \o done.events
             /\ stack' = IF done.panicked THEN <<>> ELSE Advanced
             /\ pc' = IF done.panicked THEN "panicked" ELSE pc
    /\ UNCHANGED <<platform, disk, cmd, resolver_vars, runner_vars, other_vars>>

\* The loop over a chain ends and its run_command returns.
Return ==
    /\ pc = "running"
    /\ stack # <<>>
    /\ Top.idx > Len(Top.chain)
    /\ stack' = SubSeq(stack, 1, Len(stack) - 1)
    /\ pc' = IF Len(stack) = 1 THEN "done" ELSE "running"
    /\ UNCHANGED <<platform, disk, cmd, trace, resolver_vars, runner_vars, other_vars>>

Next ==
    \/ Invoke
    \/ SkipElement
    \/ RunNested
    \/ Overflow
    \/ RunLiteral
    \/ Return

Spec == Init /\ [][Next]_vars

-----------------------------------------------------------------------------
(* Reading the trace.  A shell invocation is one call of send_command; its *)
(* text is the argument of the call.                                       *)

Sends == SelectSeq(trace, LAMBDA e : e.ev = "send")

Texts(events) == [i \in 1..Len(events) |-> events[i].text]

\* What call `run` of run_command did itself: its own send_command and
\* eprintln calls and the chain elements it resolved.
EventsOf(run) == SelectSeq(trace, LAMBDA e : e.run = run /\ e.ev # "run_command")

\* The call reached execute_resolved_command.
Executed(e) ==
    /\ e.ev = "run_command"
    /\ e.out \notin {"load failed", "not found", "overflow"}

\* The value a name resolves to in the document on disk.
Resolved(name) == find_key_in_tables(disk.doc, name)

\* The string elements of an array, in array order.
StrElems(elems) == SelectSeq(elems, LAMBDA v : v.type = "string")

\* The texts of a sequence of string values.
Strings(values) == [i \in 1..Len(values) |-> values[i].s]

IsPrefix(a, b) == Len(a) <= Len(b) /\ a = SubSeq(b, 1, Len(a))

\* The chain of call `run` has been iterated to its end.
Returned(run) ==
    /\ pc \in {"running", "done"}
    /\ \A k \in 1..Len(stack) : stack[k].run # run

IsHookTable(v) ==
    /\ v.type = "table"
    /\ as_str(get(v, "command")).some
    /\ as_str(get(v, "before")).some
    /\ as_str(get(v, "after")).some

IsTableChain(v) ==
    /\ v.type = "table"
    /\ get(v, "command").some
    /\ get(v, "command").v.type = "array"

-----------------------------------------------------------------------------
\* C1: every run of a table with string `command`, `before` and `after`
\* makes exactly three send_command calls and nothing else: the text of
\* `before`, then of `command`, then of `after`, none of them resolved as a
\* command name.
C1_HookOrder ==
    \A i \in 1..Len(trace) :
        (Executed(trace[i]) /\ IsHookTable(Resolved(trace[i].text).value.v)) =>
            LET v   == Resolved(trace[i].text).value.v
                evs == EventsOf(trace[i].run)
            IN  /\ Len(evs) = 3
                /\ \A k \in 1..3 : evs[k].ev = "send"
                /\ Texts(evs) = <<get(v, "before").v.s, get(v, "command").v.s,
                                  get(v, "after").v.s>>
                /\ <<evs[1].site, evs[2].site, evs[3].site>> = <<"before", "command", "after">>
                /\ \A k \in 1..Len(stack) : stack[k].run # trace[i].run

\* The hook table of DocHookNames has run: its `before` is the name of
\* another command and went to the shell as the text "build".
C1_Witness ==
    /\ pc = "done"
    /\ disk.doc = DocHookNames
    /\ cmd = "deploy"
    /\ Texts(Sends) = <<"build", "echo 'ok'", " ">>

\* C2: a run of a table whose `command` is an array never calls
\* send_command for `before` or `after`: all it does is resolve the string
\* elements of the array in array order, and its only send_command calls are
\* elements that fell back to the shell.
C2_ChainSkipsHooks ==
    \A i \in 1..Len(trace) :
        (Executed(trace[i]) /\ IsTableChain(Resolved(trace[i].text).value.v)) =>
            LET v     == Resolved(trace[i].text).value.v
                evs   == EventsOf(trace[i].run)
                elems == Strings(StrElems(get(v, "command").v.elems))
                steps == Texts(SelectSeq(evs, LAMBDA e : e.ev = "resolve"))
            IN  /\ \A k \in 1..Len(evs) :
                      \/ evs[k].ev = "resolve"
                      \/ /\ evs[k].ev = "send"
                         /\ evs[k].site = "literal"
                         /\ k > 1
                         /\ evs[k - 1].ev = "resolve"
                         /\ evs[k - 1].out = "literal"
                         /\ evs[k - 1].text = evs[k].text
                /\ IsPrefix(steps, elems)
                /\ Returned(trace[i].run) => steps = elems

\* custom.rel of DocHooks (an inline chain with both hooks) has run to its
\* end: only the plans of its elements reached the shell.
C2_Witness ==
    /\ pc = "done"
    /\ disk.doc = DocHooks
    /\ cmd = "rel"
    /\ Texts(Sends) = <<"make check", "make deploy", "echo ok", "make all", "echo done">>

C4_ScenarioCI ==
    (pc = "done" /\ disk = [exists |-> TRUE, parses |-> TRUE, doc |-> DocCustomCI]
        /\ cmd = "ci")
      => Texts(Sends) = <<"make all", "echo done">>

\* C5: every run of a name whose value is a string makes one send_command
\* call with that string and does nothing else: it iterates no chain and
\* resolves no name.
C5_StringIsLiteral ==
    \A i \in 1..Len(trace) :
        (Executed(trace[i]) /\ Resolved(trace[i].text).value.v.type = "string") =>
            LET evs == EventsOf(trace[i].run)
            IN  /\ Len(evs) = 1
                /\ evs[1].ev = "send"
                /\ evs[1].text = Resolved(trace[i].text).value.v.s
                /\ evs[1].site = "string"
                /\ i < Len(trace)
                /\ trace[i + 1] = evs[1]
                /\ \A k \in 1..Len(stack) : stack[k].run # trace[i].run

\* a = "b" of DocStrings has run: the shell got "b", though b is a command.
C5_Witness ==
    /\ pc = "done"
    /\ disk.doc = DocStrings
    /\ cmd = "a"
    /\ Texts(Sends) = <<"b">>
    /\ Resolved("b").found

\* C6: the recursion is finite: no run_command is entered for a name whose
\* own run is still in progress below it (each run resolves the name against
\* the same file, so a re-entered name is re-entered for ever), and the call
\* stack is never exhausted.
C6_Terminates ==
    /\ pc # "overflow"
    /\ \A j \in 1..Len(stack) : \A k \in 1..Len(stack) :
          j < k => stack[j].name # stack[k].name

\* The shell invocations of running `name`, from the document alone: the
\* texts of its own send_command calls followed, for a chain, by those of
\* each string element (of its nested run, or the element itself).
RECURSIVE PlanOf(_, _), PlanChain(_, _, _)
PlanOf(name, depth) ==
    LET r == run_command(name, disk)
    IN  IF depth > MaxDepth THEN <<>>
        ELSE Texts(SelectSeq(r.plan.ops, LAMBDA o : o.op = "send"))
             \o (IF r.plan.is_chain THEN PlanChain(r.plan.chain, 1, depth) ELSE <<>>)

PlanChain(chain, i, depth) ==
    IF i > Len(chain) THEN <<>>
    ELSE (IF chain[i].type # "string" THEN <<>>
          ELSE IF resolve_and_run_subcommand(chain[i].s, disk.doc) = "run_command"
          THEN PlanOf(chain[i].s, depth + 1)
          ELSE <<chain[i].s>>)
         \o PlanChain(chain, i + 1, depth)

\* C7: no step outcome stops the sequence: the process never ends early on
\* a failed step, and a finished run has made all the send_command calls of
\* its plan, in order, whatever each shell did.
C7_NoFailFast ==
    /\ pc # "panicked"
    /\ pc = "done" => Texts(Sends) = PlanOf(cmd, 0)

\* custom.rel of DocHooks has finished although its first shell could not be
\* spawned and a later one exited non-zero.
C7_Witness ==
    /\ pc = "done"
    /\ disk.doc = DocHooks
    /\ cmd = "rel"
    /\ Len(Sends) = 5
    /\ Sends[1].out = "spawn_error"
    /\ Sends[4].out = "exit1"
    /\ Sends[5].out = "exit0"

C9_MissingCommandAborts ==
    \A i \in 1..Len(trace) :
        (/\ Executed(trace[i])
         /\ Resolved(trace[i].text).value.v.type = "table"
         /\ ~contains_key(Resolved(trace[i].text).value.v, "command")) =>
            LET evs == EventsOf(trace[i].run)
            IN  /\ \A k \in 1..Len(evs) : evs[k].ev # "send"
                /\ \E k \in 1..Len(evs) :
                      evs[k].ev = "eprintln" /\ evs[k].text = "Missing 'command' in table"

IsScalar(v) == v.type \in {"integer", "float", "boolean"}

\* C10: a name whose value is an integer, a float or a boolean never
\* reaches the shell: its run_command reports the unsupported format and
\* calls no send_command, and as a chain element it is not given to
\* send_command either.
C10_ScalarsNeverRun ==
    /\ \A i \in 1..Len(trace) :
          (Executed(trace[i]) /\ IsScalar(Resolved(trace[i].text).value.v)) =>
              EventsOf(trace[i].run)
                = <<Event("eprintln", "Unsupported command format", trace[i].text,
                          trace[i].run, "", "")>>
    /\ \A i \in 1..Len(trace) :
          (/\ trace[i].ev = "resolve"
           /\ Resolved(trace[i].text).found
           /\ IsScalar(Resolved(trace[i].text).value.v)) =>
              /\ i < Len(trace)
              /\ trace[i + 1].ev # "send"

-----------------------------------------------------------------------------
(* plugin.rs: the script path resolver.                                    *)
(*                                                                         *)
(* A path is a sequence of tokens: "/" , "." and names that hold neither.  *)
(* A program or an argument that is no path is a sequence of one token.    *)

Word(w) == <<w>>

Engine(ext, program, args, os) ==
    [ext |-> ext, program |-> program, args |-> args, os |-> os]

\* built_in_engines(), in table order; os "any" is None
SUPPORTED_ENGINES ==
    << Engine("bat", "cmd", <<Word("/C")>>, "windows"),
       Engine("cmd", "cmd", <<Word("/C")>>, "windows"),
       Engine("ps1", "powershell",
              <<Word("-ExecutionPolicy"), Word("Bypass"), Word("-File")>>, "windows"),
       Engine("sh", "sh", <<>>, "unix"),
       Engine("py", "python", <<>>, "any"),
       Engine("go", "go", <<Word("run")>>, "any"),
       Engine("js", "node", <<>>, "any"),
       Engine("mjs", "node", <<>>, "any"),
       Engine("ts", "deno", <<Word("run")>>, "any"),
       Engine("rb", "ruby", <<>>, "any"),
       Engine("lua", "lua", <<>>, "any"),
       Engine("exe", "", <<>>, "windows") >>

\* e.os.is_none() || (cfg!(windows) && os == "windows") || (cfg!(unix) && os == "unix")
engine_applies(e, os) == e.os = "any" \/ e.os = os

\* Path::file_name: the tokens after the last "/"
file_name(path) ==
    LET slashes == {i \in 1..Len(path) : path[i] = "/"}
        last    == IF slashes = {} THEN 0
                   ELSE CHOOSE i \in slashes : \A j \in slashes : j <= i
    IN  SubSeq(path, last + 1, Len(path))

\* Path::extension().and_then(|e| e.to_str()): what follows the last "." of
\* the file name, unless the file name has no "." or only a leading one.
extension(path) ==
    LET name == file_name(path)
        dots == {i \in 1..Len(name) : name[i] = "."}
        last == IF dots = {} THEN 0 ELSE CHOOSE i \in dots : \A j \in dots : j <= i
    IN  IF name = <<".", ".">> \/ last <= 1 THEN [some |-> FALSE, v |-> ""]
        ELSE IF last = Len(name) THEN [some |-> TRUE, v |-> ""]
        ELSE [some |-> TRUE, v |-> name[Len(name)]]

ScriptCommand(program, args) == [program |-> program, args |-> args]

Resolved_Ok(command, warning) ==
    [done |-> TRUE, ok |-> TRUE, v |-> command, err |-> "", warning |-> warning]

Resolved_Err(kind, warning) ==
    [done |-> TRUE, ok |-> FALSE, v |-> ScriptCommand(<<>>, <<>>), err |-> kind,
     warning |-> warning]

\* Mutant: the platform of an engine is not looked at.
map_extension_to_command_any_os(full_path, ext, os) ==
    LET hits == {i \in 1..Len(SUPPORTED_ENGINES) : SUPPORTED_ENGINES[i].ext = ext}
    IN  IF hits = {} THEN Resolved_Err("Unsupported script extension", <<>>)
        ELSE LET engine == SUPPORTED_ENGINES[CHOOSE i \in hits : \A j \in hits : i <= j]
             IN  IF engine.ext = "exe"
                 THEN Resolved_Ok(ScriptCommand(full_path, <<>>), <<>>)
                 ELSE Resolved_Ok(ScriptCommand(Word(engine.program),
                                                Append(engine.args, full_path)), <<>>)

map_extension_to_command(full_path, ext, os) ==
    LET hits == {i \in 1..Len(SUPPORTED_ENGINES) :
                    /\ SUPPORTED_ENGINES[i].ext = ext
                    /\ engine_applies(SUPPORTED_ENGINES[i], os)}
    IN  IF hits = {} THEN Resolved_Err("Unsupported script extension", <<>>)
        ELSE LET engine == SUPPORTED_ENGINES[CHOOSE i \in hits : \A j \in hits : i <= j]
             IN  IF engine.ext = "exe"
                 THEN Resolved_Ok(ScriptCommand(full_path, <<>>), <<>>)
                 ELSE Resolved_Ok(ScriptCommand(Word(engine.program),
                                                Append(engine.args, full_path)), <<>>)

\* The extensions of a sequence of engines
Exts(engines) == [i \in 1..Len(engines) |-> engines[i].ext]

\* Mutant: the preferred extension is not looked at.
supported_extensions_no_preference(pref, os) ==
    Exts(SelectSeq(SUPPORTED_ENGINES, LAMBDA e : engine_applies(e, os)))

\* Mutant: the engines are taken last to first.
supported_extensions_reversed(pref, os) ==
    LET on == SelectSeq(SUPPORTED_ENGINES,
                        LAMBDA e : /\ engine_applies(e, os)
                                   /\ (pref.some => e.ext = pref.v))
    IN  [i \in 1..Len(on) |-> on[Len(on) + 1 - i].ext]

supported_extensions(pref, os) ==
    Exts(SelectSeq(SUPPORTED_ENGINES,
                   LAMBDA e : /\ engine_applies(e, os)
                              \* preferred.map_or(true, |p| &e.ext == p)
                              /\ (pref.some => e.ext = pref.v)))

\* format!("{base_path}.{ext}")
with_ext(base_path, ext) == base_path \o <<".", ext>>

\* Mutant: a reference without extension is used as it is when no
\* candidate file exists.
resolve_script_path_lenient(base_path, pref, os, fs) ==
    LET supported  == supported_extensions(pref, os)
        candidates == SelectSeq(supported, LAMBDA ext : with_ext(base_path, ext) \in fs)
    IN  IF extension(base_path).some
        THEN map_extension_to_command(base_path, extension(base_path).v, os)
        ELSE IF candidates # <<>>
        THEN map_extension_to_command(with_ext(base_path, candidates[1]), candidates[1], os)
        ELSE Resolved_Ok(ScriptCommand(base_path, <<>>), <<>>)

\* resolve_script_path(base_path, preferred) on a build for `os`, `fs` being
\* the paths that exist; `warning` lists the extensions the warning names.
resolve_script_path(base_path, pref, os, fs) ==
    LET supported  == supported_extensions(pref, os)
        candidates == SelectSeq(supported, LAMBDA ext : with_ext(base_path, ext) \in fs)
        warning    == IF Len(candidates) > 1 THEN candidates ELSE <<>>
    IN  \* if the file already has an extension, resolve directly
        IF extension(base_path).some
        THEN map_extension_to_command(base_path, extension(base_path).v, os)
        \* use the first match or fail
        ELSE IF candidates # <<>>
        THEN [map_extension_to_command(with_ext(base_path, candidates[1]),
                                       candidates[1], os)
                EXCEPT !.warning = warning]
        ELSE Resolved_Err("No supported script found", warning)

-----------------------------------------------------------------------------
(* The resolver applied by a caller: run_plugin, or the tests of plugin.rs *)
(* after they created their files.                                         *)

Dir == <<"tools", "/">>

\* Script references: without extension, with every extension of the
\* table, with an extension no engine has, with a leading dot only, with a
\* trailing dot, and with a dot in a directory name only.
Extensions == {SUPPORTED_ENGINES[i].ext : i \in 1..Len(SUPPORTED_ENGINES)}

References ==
    {Dir \o <<"fmt">>, <<"fmt">>, <<".", "fmt">>, Dir \o <<"fmt", ".">>,
     <<"v1", ".", "d", "/", "fmt">>}
    \cup {Dir \o <<"fmt", ".", e>> : e \in Extensions \cup {"txt"}}

Preferences ==
    {[some |-> FALSE, v |-> ""]}
    \cup {[some |-> TRUE, v |-> e] : e \in {"py", "sh", "bat", "txt"}}

\* The script files that may exist next to the reference tools/fmt
FileSystems == SUBSET {Dir \o <<"fmt", ".", e>> : e \in {"sh", "py", "bat", "js"}}

ResolveInit ==
    /\ platform \in {"unix", "windows"}
    /\ disk = [exists |-> FALSE, parses |-> FALSE, doc |-> Tab(<<>>)]
    /\ cmd = "missing"
    /\ pc = "start"
    /\ stack = <<>>
    /\ trace = <<>>
    /\ script \in References
    /\ preferred \in Preferences
    /\ files \in FileSystems
    /\ resolved = Unresolved
    /\ runner_idle
    /\ others_idle

Resolve ==
    /\ ~resolved.done
    /\ resolved' = resolve_script_path(script, preferred, platform, files)
    /\ UNCHANGED <<platform, disk, engine_vars, script, preferred, files, runner_vars, other_vars>>

ResolveNext == Resolve

SpecResolve == ResolveInit /\ [][ResolveNext]_vars

-----------------------------------------------------------------------------
(* plugin.rs: run_plugin *)

\* toml::Value::Boolean with its value
Bool(b) ==
    [type |-> "boolean", s |-> IF b THEN "true" ELSE "false", elems |-> <<>>,
     entries |-> <<>>]

\* Option<&Value>::and_then(toml::Value::as_bool)
as_bool(opt) ==
    IF opt.some /\ opt.v.type = "boolean" THEN [some |-> TRUE, v |-> opt.v.s = "true"]
    ELSE [some |-> FALSE, v |-> FALSE]

\* Path::new(&str): the components of the script references the documents use
Path_new(str) ==
    CASE str = "tools/fmt"     -> <<"tools", "/", "fmt">>
      [] str = "tools/fmt.sh"  -> <<"tools", "/", "fmt", ".", "sh">>
      [] str = "tools/fmt.py"  -> <<"tools", "/", "fmt", ".", "py">>
      [] str = "tools/fmt.txt" -> <<"tools", "/", "fmt", ".", "txt">>
      [] OTHER                 -> <<str>>

\* get_toml_content(path).ok_or_else(..): read_to_string(..).expect(..)
\* panics when the file cannot be read.
load_atomic_toml(file) ==
    [panics |-> ~file.exists,
     ok     |-> file.exists /\ get_toml_content(file).some,
     v      |-> file.doc,
     err    |-> IF file.exists /\ ~get_toml_content(file).some
                THEN "atomic.toml not found" ELSE ""]

PluginConfig(script_, args, preferred_, silent) ==
    [script |-> script_, args |-> args, preferred |-> preferred_, silent |-> silent]

NoConfig == PluginConfig("", <<>>, [some |-> FALSE, v |-> ""], FALSE)

parse_plugin_entry(name, toml) ==
    LET entry == value_get(value_get(toml, "plugin").v, name)
        t     == entry.v
    IN  \* toml.get("plugin").and_then(|v| v.get(name)).and_then(|v| v.as_table())
        IF ~(value_get(toml, "plugin").some /\ entry.some /\ t.type = "table")
        THEN [ok |-> FALSE, panics |-> FALSE, err |-> "Plugin not found", v |-> NoConfig]
        \* plugin_section["script"] panics without the key, .expect(..)
        \* panics when the value is no string
        ELSE IF ~as_str(get(t, "script")).some
        THEN [ok |-> FALSE, panics |-> TRUE, err |-> "", v |-> NoConfig]
        ELSE [ok |-> TRUE, panics |-> FALSE, err |-> "",
              v |-> PluginConfig(as_str(get(t, "script")).v,
                                 \* filter_map(|v| v.as_str()), unwrap_or_default()
                                 IF get(t, "args").some /\ get(t, "args").v.type = "array"
                                 THEN Strings(StrElems(get(t, "args").v.elems)) ELSE <<>>,
                                 as_str(get(t, "preferred")),
                                 \* unwrap_or(false)
                                 as_bool(get(t, "silent")).v)]

\* Command::new(&resolved.program).args(&resolved.args).args(args)
build_command(command, args) ==
    [program |-> command.program,
     args    |-> command.args \o [i \in 1..Len(args) |-> Word(args[i])]]

-----------------------------------------------------------------------------
(* run_plugin as a process: the calling thread, the plugin process and the *)
(* two drain threads.                                                      *)

\* Lines the plugin process writes to one stream, at most.
MaxLines == 2

\* Lines a pipe holds before a write to it blocks, at most: the capacity
\* of a pipe is counted in bytes, so in lines it depends on their lengths.
PipeCap == 2

\* The n-th line of a stream; utf8 is FALSE for bytes that are no UTF-8.
Line(n, utf8) == [n |-> n, utf8 |-> utf8]

\* One println!/eprintln! of the atomic process
Out(kind, stream, n) == [kind |-> kind, stream |-> stream, n |-> n]

\* One write to the log file: writeln!(log_file, "[{now}] [stdout] {line}")
\* on an unbuffered File writes the text before the line and the line
\* separately.
Fragment(stream, part, n) == [stream |-> stream, part |-> part, n |-> n]

\* ExitStatus::code(): Some(code), or None for a process ended by a signal
Exited(code) == [some |-> TRUE, v |-> code]

Signalled == [some |-> FALSE, v |-> 0]

ExitCodes == {0, 1}

Ok == [done |-> TRUE, ok |-> TRUE, panics |-> FALSE, err |-> "", code |-> Exited(0)]

Err(kind, code) ==
    [done |-> TRUE, ok |-> FALSE, panics |-> FALSE, err |-> kind, code |-> code]

Panic == [done |-> TRUE, ok |-> FALSE, panics |-> TRUE, err |-> "", code |-> Signalled]

PluginTable(entry) == Tab(<< <<"plugin", Tab(<< <<"fmt", entry>> >>)>> >>)

\* [plugin.fmt] entries: no extension with a preferred one, streaming and
\* with arguments; no extension and no preferred one, silent; no script; a
\* script that is no string; an extension without engine; no table.
PluginEntries ==
    {Tab(<< <<"script", Str("tools/fmt")>>, <<"preferred", Str("sh")>>,
            <<"silent", Bool(FALSE)>>, <<"args", Arr(<<Str("--check")>>)>> >>),
     Tab(<< <<"script", Str("tools/fmt")>>, <<"silent", Bool(TRUE)>> >>),
     Tab(<< <<"silent", Bool(TRUE)>> >>),
     Tab(<< <<"script", Scalar("integer")>> >>),
     Tab(<< <<"script", Str("tools/fmt.txt")>> >>),
     Str("tools/fmt.sh")}

PluginDocs ==
    {PluginTable(e) : e \in PluginEntries}
    \cup {Tab(<<>>), Tab(<< <<"plugin", Str("fmt")>> >>)}

PluginFiles ==
    {[exists |-> FALSE, parses |-> FALSE, doc |-> Tab(<<>>)],
     [exists |-> TRUE, parses |-> FALSE, doc |-> Tab(<<>>)]}
    \cup {[exists |-> TRUE, parses |-> TRUE, doc |-> d] : d \in PluginDocs}

PluginNames == {"fmt", "lint"}

PluginInit ==
    /\ platform \in {"unix", "windows"}
    /\ disk \in PluginFiles
    /\ cmd = "missing"
    /\ pc = "start"
    /\ stack = <<>>
    /\ trace = <<>>
    /\ script = <<>>
    /\ preferred = [some |-> FALSE, v |-> ""]
    /\ files \in {{}, {Path_new("tools/fmt.sh"), Path_new("tools/fmt.py")}}
    /\ resolved = Unresolved
    /\ plugin \in PluginNames
    /\ runner_at_rest
    /\ others_idle

\* run_plugin up to command.spawn(): every `?` returns the error, a panic
\* ends the thread.  The warning of resolve_script_path goes to stderr.
\* A spawned process starts with both pipes open and nothing written; `cap`
\* is the number of its lines that fit into a pipe.
PluginInvoke ==
    /\ ppc = "idle"
    /\ LET toml   == load_atomic_toml(disk)
           entry  == parse_plugin_entry(plugin, toml.v)
           config == entry.v
           found  == resolve_script_path(Path_new(config.script), config.preferred,
                                         platform, files)
           warn   == IF found.warning = <<>> THEN <<>>
                     ELSE <<Out("warning", "stderr", Len(found.warning))>>
       IN  IF toml.panics \/ (toml.ok /\ entry.panics)
           THEN /\ result' = Panic
                /\ ppc' = "returned"
                /\ UNCHANGED <<script, preferred, resolved, child, terminal>>
           ELSE IF ~toml.ok \/ ~entry.ok
           THEN /\ result' = Err(IF toml.ok THEN entry.err ELSE toml.err, Signalled)
                /\ ppc' = "returned"
                /\ UNCHANGED <<script, preferred, resolved, child, terminal>>
           ELSE /\ script' = Path_new(config.script)
                /\ preferred' = config.preferred
                /\ resolved' = found
                /\ terminal' = terminal \o warn
                /\ IF ~found.ok
                   THEN /\ result' = Err(found.err, Signalled)
                        /\ ppc' = "returned"
                        /\ UNCHANGED child
                   ELSE \E spawns \in BOOLEAN, cap \in 1..PipeCap :
                          IF spawns
                          THEN /\ child' = [state   |-> "running",
                                            cap     |-> cap,
                                            command |-> build_command(found.v, config.args),
                                            silent  |-> config.silent,
                                            sent    |-> [s \in Streams |-> <<>>],
                                            open    |-> TRUE,
                                            status  |-> Signalled]
                               /\ ppc' = "spawned"
                               /\ UNCHANGED result
                          ELSE /\ result' = Err("spawn failed", Signalled)
                               /\ ppc' = "returned"
                               /\ UNCHANGED child
    /\ UNCHANGED <<platform, disk, engine_vars, files, plugin, pipe, drain, logfile, status,
                   other_vars>>

\* The parts of the state that no step after the spawn changes
fixed_vars == <<platform, disk, engine_vars, resolver_vars, plugin, other_vars>>

\* run_plugin_silent up to the second thread::spawn (create_dir_all and
\* the open of the log file may fail: `?` returns, which drops both pipe
\* readers), or run_plugin_stream up to its second thread::spawn.
StartDrains ==
    /\ ppc = "spawned"
    /\ \E opens \in BOOLEAN :
          IF child.silent /\ ~opens
          THEN /\ result' = Err("log file", Signalled)
               /\ ppc' = "returned"
               /\ UNCHANGED drain
          ELSE /\ drain' = [s \in Streams |-> "running"]
               /\ ppc' = "status"
               /\ UNCHANGED result
    /\ UNCHANGED <<fixed_vars, child, pipe, terminal, logfile, status>>

\* let status = Command::new("true").status()?;
MainStatus ==
    /\ ppc = "status"
    /\ \E outcome \in Outcomes :
          IF outcome = "spawn_error"
          THEN /\ result' = Err("true failed", Signalled)
               /\ ppc' = "returned"
               /\ UNCHANGED status
          ELSE /\ status' = outcome
               /\ ppc' = "join"
               /\ UNCHANGED result
    /\ UNCHANGED <<fixed_vars, child, pipe, drain, terminal, logfile>>

\* out_thread.join(), err_thread.join(), the notice of run_plugin_silent,
\* and the end of run_plugin.
MainReturn ==
    /\ ppc = "join"
    /\ \A s \in Streams : drain[s] = "done"
    /\ LET notice == IF child.silent THEN <<Out("notice", "stdout", 0)>> ELSE <<>>
       IN  IF status = "exit0"
           THEN /\ terminal' = terminal \o notice \o <<Out("success", "stdout", 0)>>
                /\ result' = Ok
           ELSE /\ terminal' = terminal \o notice
                /\ result' = Err("failed with exit code", Exited(1))
    /\ ppc' = "returned"
    /\ UNCHANGED <<fixed_vars, child, pipe, drain, logfile, status>>

\* Mutant: a reader that was dropped keeps the read end of its pipe open.
ReadClosedNever(s) == FALSE

\* The read end of a pipe is closed once its reader has been dropped.
ReadClosed(s) == drain[s] = "done" \/ (drain[s] = "none" /\ result.done)

\* The plugin process writes one more line; the write blocks while the
\* pipe is full.
ChildWrite(s) ==
    /\ child.state = "running"
    /\ child.open
    /\ Len(child.sent[s]) < MaxLines
    /\ ~ReadClosed(s)
    /\ Len(pipe[s]) < child.cap
    /\ \E utf8 \in BOOLEAN :
          LET line == Line(Len(child.sent[s]) + 1, utf8)
          IN  /\ pipe' = [pipe EXCEPT ![s] = Append(@, line)]
              /\ child' = [child EXCEPT !.sent[s] = Append(@, line)]
    /\ UNCHANGED <<fixed_vars, ppc, drain, terminal, logfile, status, result>>

\* A write to a pipe without reader: SIGPIPE ends the plugin process.
ChildSigpipe(s) ==
    /\ child.state = "running"
    /\ child.open
    /\ Len(child.sent[s]) < MaxLines
    /\ ReadClosed(s)
    /\ child' = [child EXCEPT !.state = "exited", !.open = FALSE, !.status = Signalled]
    /\ UNCHANGED <<fixed_vars, ppc, pipe, drain, terminal, logfile, status, result>>

\* The plugin process closes its stdout and stderr and keeps running.
ChildClose ==
    /\ child.state = "running"
    /\ child.open
    /\ child' = [child EXCEPT !.open = FALSE]
    /\ UNCHANGED <<fixed_vars, ppc, pipe, drain, terminal, logfile, status, result>>

ChildExit ==
    /\ child.state = "running"
    /\ \E code \in ExitCodes :
          child' = [child EXCEPT !.state = "exited", !.open = FALSE,
                                 !.status = Exited(code)]
    /\ UNCHANGED <<fixed_vars, ppc, pipe, drain, terminal, logfile, status, result>>

\* Mutant: a line is printed also when the plugin is silent.
print_line_always(silent, s, n) == <<Out("line", s, n)>>

\* What a drain prints for a line: println!("▶️ {line}") or
\* eprintln!("❗ {line}") in run_plugin_stream, nothing in run_plugin_silent
print_line(silent, s, n) == IF silent THEN <<>> ELSE <<Out("line", s, n)>>

\* for line in reader.lines().map_while(Result::ok): the next line is
\* printed (println! for stdout, eprintln! for stderr) or, when silent,
\* the first part of its log entry is written; a line that is no UTF-8
\* ends the loop and drops the reader.
DrainRead(s) ==
    /\ drain[s] = "running"
    /\ pipe[s] # <<>>
    /\ LET line == Head(pipe[s])
       IN  IF ~line.utf8
           THEN /\ drain' = [drain EXCEPT ![s] = "done"]
                /\ pipe' = [pipe EXCEPT ![s] = <<>>]
                /\ UNCHANGED <<terminal, logfile>>
           ELSE /\ pipe' = [pipe EXCEPT ![s] = Tail(@)]
                /\ terminal' = terminal \o print_line(child.silent, s, line.n)
                /\ IF child.silent
                   THEN /\ logfile' = Append(logfile, Fragment(s, "head", line.n))
                        /\ drain' = [drain EXCEPT ![s] = "writing"]
                   ELSE UNCHANGED <<logfile, drain>>
    /\ UNCHANGED <<fixed_vars, ppc, child, status, result>>

\* The rest of writeln!(log_file, ..): the line itself
DrainWrite(s) ==
    /\ drain[s] = "writing"
    /\ LET mine == SelectSeq(logfile, LAMBDA f : f.stream = s)
       IN  logfile' = Append(logfile, Fragment(s, "tail", mine[Len(mine)].n))
    /\ drain' = [drain EXCEPT ![s] = "running"]
    /\ UNCHANGED <<fixed_vars, ppc, child, pipe, terminal, status, result>>

\* lines() ends at end of file: the pipe is empty and has no writer.
DrainEOF(s) ==
    /\ drain[s] = "running"
    /\ pipe[s] = <<>>
    /\ ~child.open
    /\ drain' = [drain EXCEPT ![s] = "done"]
    /\ UNCHANGED <<fixed_vars, ppc, child, pipe, terminal, logfile, status, result>>

PluginNext ==
    \/ PluginInvoke
    \/ StartDrains
    \/ MainStatus
    \/ MainReturn
    \/ \E s \in Streams : ChildWrite(s)
    \/ \E s \in Streams : ChildSigpipe(s)
    \/ ChildClose
    \/ ChildExit
    \/ \E s \in Streams : DrainRead(s)
    \/ \E s \in Streams : DrainWrite(s)
    \/ \E s \in Streams : DrainEOF(s)

SpecPlugin == PluginInit /\ [][PluginNext]_vars

-----------------------------------------------------------------------------
(* Claims about run_plugin, under SpecPlugin *)

\* C11: run_plugin returns Ok exactly when the plugin process exited with
\* status zero, and an error carrying the exit code of the plugin process
\* when that exited with another status.  Stated for the calls that got
\* to look at an exit status, once the plugin process has exited.
C11_ExitStatusDecides ==
    (result.done /\ status # "none" /\ child.state = "exited") =>
        /\ result.ok <=> child.status = Exited(0)
        /\ ~result.ok => result.code = child.status

\* C12: run_plugin has returned only if the plugin process has exited and
\* both drains have finished.
C12_ReturnsAfterExit ==
    (result.done /\ child.state # "none") =>
        /\ child.state = "exited"
        /\ \A s \in Streams : drain[s] = "done"

\* The entry of the document on disk for the plugin name
EntryOnDisk == value_get(value_get(disk.doc, "plugin").v, plugin)

\* C13: with a document that has no entry for the plugin name, and with one
\* whose entry lacks `script`, run_plugin returns an error and does not
\* panic, and the two errors differ.
C13_MissingEntryOrScript ==
    (result.done /\ disk.exists /\ disk.parses) =>
        /\ ~EntryOnDisk.some =>
              ~result.panics /\ ~result.ok /\ result.err = "Plugin not found"
        /\ (EntryOnDisk.some /\ EntryOnDisk.v.type = "table"
               /\ ~contains_key(EntryOnDisk.v, "script")) =>
              ~result.panics /\ ~result.ok /\ result.err \notin {"", "Plugin not found"}

\* The numbers of a sequence of lines, terminal outputs or log fragments
Numbers(seq) == [i \in 1..Len(seq) |-> seq[i].n]

\* The lines of stream s that its drain has surfaced: printed, or written
\* to the log when the plugin is silent
Surfaced(s) ==
    IF child.silent
    THEN Numbers(SelectSeq(logfile, LAMBDA f : f.stream = s /\ f.part = "tail"))
    ELSE Numbers(SelectSeq(terminal, LAMBDA o : o.kind = "line" /\ o.stream = s))

\* C19: for stdout and for stderr, the lines the drain surfaced are the
\* lines the plugin process emitted on that stream, all of them and in
\* order.  Stated for a drain that has finished, and asking only for the
\* emitted lines that are valid UTF-8.
C19_DrainSurfacesAll ==
    \A s \in Streams :
        drain[s] = "done" =>
            Surfaced(s) = Numbers(SelectSeq(child.sent[s], LAMBDA l : l.utf8))

\* C20: with a silent plugin, no line of the plugin process is on the
\* terminal, and the terminal output of the run_plugin call is the notice
\* about the log file and nothing else.
C20_OnlyNotice ==
    (child.state # "none" /\ child.silent) =>
        /\ \A i \in 1..Len(terminal) : terminal[i].kind = "notice"
        /\ (result.done /\ result.ok) => terminal = <<Out("notice", "stdout", 0)>>

\* C20, amended: with a silent plugin, no line of the plugin process is on
\* the terminal; the terminal output of the run_plugin call is the
\* resolver's warning when several script files matched, then, once both
\* drains have finished, the notice about the log file, followed by the
\* success message when the exit status is success.
C20_NoticeThenSuccess ==
    (child.state # "none" /\ child.silent) =>
        LET warned   == IF resolved.warning = <<>> THEN <<>>
                        ELSE <<Out("warning", "stderr", Len(resolved.warning))>>
            finished == IF ppc = "returned" /\ status # "none"
                        THEN <<Out("notice", "stdout", 0)>> ELSE <<>>
            success  == IF ppc = "returned" /\ status = "exit0"
                        THEN <<Out("success", "stdout", 0)>> ELSE <<>>
        IN  terminal = warned \o finished \o success

C20_Witness ==
    /\ child.silent
    /\ result.ok
    /\ \A s \in Streams : Len(child.sent[s]) > 1 /\ Surfaced(s) = Numbers(child.sent[s])
    /\ resolved.warning # <<>>

-----------------------------------------------------------------------------
(* Claims about the resolver, under SpecResolve *)

Last(seq) == seq[Len(seq)]

\* The extensions of the engines that apply to the platform, in table order
PlatformExts == Exts(SelectSeq(SUPPORTED_ENGINES, LAMBDA e : engine_applies(e, platform)))

\* Those of them for which a file <script>.<ext> exists
Matching == SelectSeq(PlatformExts, LAMBDA ext : with_ext(script, ext) \in files)

\* C14: for a reference without extension and with a preferred extension,
\* the candidates are the preferred extension first, then the remaining
\* platform-supported extensions in table order; so when a file exists for
\* some platform-supported extension, resolution succeeds with the first
\* candidate that has a file, also when the preferred one has none.
C14_PreferredThenRest ==
    (resolved.done /\ ~extension(script).some /\ preferred.some) =>
        LET first == SelectSeq(Matching, LAMBDA ext : ext = preferred.v)
            rest  == SelectSeq(Matching, LAMBDA ext : ext # preferred.v)
            found == first \o rest
        IN  found # <<>> =>
                /\ resolved.ok
                /\ resolved.v.args # <<>>
                /\ Last(resolved.v.args) = with_ext(script, found[1])

\* C15: tools/fmt.py and tools/fmt.sh both exist, preferred = "py", on
\* Unix: the result is python with tools/fmt.py as last argument.
C15_PreferredWins ==
    ( /\ resolved.done
      /\ platform = "unix"
      /\ script = Dir \o <<"fmt">>
      /\ preferred = [some |-> TRUE, v |-> "py"]
      /\ {with_ext(script, "py"), with_ext(script, "sh")} \subseteq files )
    => /\ resolved.ok
       /\ resolved.v.program = Word("python")
       /\ resolved.v.args # <<>>
       /\ Last(resolved.v.args) = Dir \o <<"fmt", ".", "py">>

C15_Witness ==
    /\ resolved.done
    /\ platform = "unix"
    /\ script = Dir \o <<"fmt">>
    /\ preferred = [some |-> TRUE, v |-> "py"]
    /\ files = {with_ext(script, "py"), with_ext(script, "sh")}

\* The engines that have the extension of the script reference and apply
\* to the platform
EnginesOfScript ==
    SelectSeq(SUPPORTED_ENGINES,
              LAMBDA e : e.ext = extension(script).v /\ engine_applies(e, platform))

\* C16: a reference with an extension that has a platform-applicable engine
\* resolves to that engine's program, with the engine's fixed arguments and
\* then the reference as arguments, whether or not the file exists; an
\* extension without such an engine gives the unsupported-extension error.
C16_ExplicitExtension ==
    (resolved.done /\ extension(script).some) =>
        IF EnginesOfScript # <<>>
        THEN /\ resolved.ok
             /\ resolved.v.program = Word(EnginesOfScript[1].program)
             /\ resolved.v.args = Append(EnginesOfScript[1].args, script)
        ELSE ~resolved.ok /\ resolved.err = "Unsupported script extension"

\* C16, amended: as above, except that the `exe` engine makes the reference
\* itself the program, with no arguments.
C16_ExplicitExtensionExe ==
    (resolved.done /\ extension(script).some) =>
        IF EnginesOfScript = <<>>
        THEN ~resolved.ok /\ resolved.err = "Unsupported script extension"
        ELSE IF EnginesOfScript[1].ext = "exe"
        THEN /\ resolved.ok
             /\ resolved.v.program = script
             /\ resolved.v.args = <<>>
        ELSE /\ resolved.ok
             /\ resolved.v.program = Word(EnginesOfScript[1].program)
             /\ resolved.v.args = Append(EnginesOfScript[1].args, script)

C16_Witness ==
    /\ resolved.done
    /\ script = Dir \o <<"fmt", ".", "ps1">>
    /\ script \notin files
    /\ platform = "windows"
    /\ resolved.v.args = <<Word("-ExecutionPolicy"), Word("Bypass"), Word("-File"), script>>

\* C17: a reference without extension, no preferred extension, and files
\* for more than one candidate extension: resolution succeeds, the warning
\* names every matching extension, and the first of them in table order is
\* used.
C17_AmbiguityWarns ==
    (resolved.done /\ ~extension(script).some /\ ~preferred.some /\ Len(Matching) > 1) =>
        /\ resolved.ok
        /\ resolved.warning = Matching
        /\ resolved.v.args # <<>>
        /\ Last(resolved.v.args) = with_ext(script, Matching[1])
        /\ \E i \in 1..Len(SUPPORTED_ENGINES) :
              /\ SUPPORTED_ENGINES[i].ext = Matching[1]
              /\ resolved.v.program = Word(SUPPORTED_ENGINES[i].program)

C17_Witness ==
    /\ resolved.done
    /\ platform = "unix"
    /\ script = Dir \o <<"fmt">>
    /\ ~preferred.some
    /\ files = {with_ext(script, "sh"), with_ext(script, "py"), with_ext(script, "bat")}
    /\ resolved.warning = <<"sh", "py">>
    /\ resolved.v.program = Word("sh")

\* C18: a reference without extension and without a file for any candidate
\* extension gives the not-found error, not a command.
C18_MissingScript ==
    (resolved.done /\ ~extension(script).some /\ Matching = <<>>) =>
        /\ ~resolved.ok
        /\ resolved.err = "No supported script found"

C18_Witness ==
    /\ resolved.done
    /\ script = Dir \o <<"fmt">>
    /\ platform = "windows"
    /\ files = {with_ext(script, "sh")}
    /\ ~resolved.ok

-----------------------------------------------------------------------------
(* The same command line given twice: `atomic <cmd>`, and once that process *)
(* has ended, `atomic <cmd>` again, with the same file on disk.             *)

Ended == pc \in {"done", "overflow", "panicked"}

\* The second process starts where the first started; the trace of the
\* first is kept for comparison.
RunAgain ==
    /\ Ended
    /\ earlier = <<>>
    /\ earlier' = <<trace>>
    /\ pc' = "start"
    /\ stack' = <<>>
    /\ trace' = <<>>
    /\ UNCHANGED <<platform, disk, cmd, resolver_vars, runner_vars, autocommit, init,
                   repo, branch, tui>>

TwiceNext == Next \/ RunAgain

SpecTwice == Init /\ [][TwiceNext]_vars

\* The shell invocations of a trace: the text handed to send_command and
\* the command line the shell was given for it
Invocations(events) ==
    LET sends == SelectSeq(events, LAMBDA e : e.ev = "send")
    IN  [i \in 1..Len(sends) |-> <<sends[i].text, sends[i].line>>]

-----------------------------------------------------------------------------
(* cli.rs: start_cli after the command or the plugin *)

\* command_ran: set once run_command has returned, whatever it did, and
\* once run_plugin has returned Ok
command_ran == pc = "done" \/ (result.done /\ result.ok)

\* if command_ran { match git::commit_local_changes(cmd_str) { .. } }
AutoCommit ==
    /\ command_ran
    /\ autocommit = "none"
    /\ \E committed \in BOOLEAN :
          autocommit' = IF committed THEN "completed" ELSE "failed"
    /\ UNCHANGED <<platform, disk, engine_vars, resolver_vars, runner_vars, earlier,
                   init, repo, branch, tui>>

CliNext == Next \/ AutoCommit

SpecCli == Init /\ [][CliNext]_vars

\* C22: an auto-commit is made only after a command that ran and
\* succeeded: the name was found in a configuration that loaded and
\* validated, and no step of it failed.
C22_CommitOnlyAfterSuccess ==
    autocommit = "completed" =>
        /\ trace # <<>>
        /\ Executed(trace[1])
        /\ \A i \in 1..Len(Sends) : Sends[i].out \in {"exit0", "blank"}

-----------------------------------------------------------------------------
(* cli.rs: start_init.  A line read from stdin is a sequence of characters. *)

\* Characters an answer is made of, at most.
MaxAnswer == 4

Whitespace == {" ", "\n"}

\* char::to_lowercase on the characters of an answer
char_to_lowercase(c) == IF c = "Y" THEN "y" ELSE c

\* str::trim: without the leading and the trailing whitespace
trim(chars) ==
    LET solid == {i \in 1..Len(chars) : chars[i] \notin Whitespace}
    IN  IF solid = {} THEN <<>>
        ELSE SubSeq(chars, CHOOSE i \in solid : \A j \in solid : i <= j,
                           CHOOSE i \in solid : \A j \in solid : j <= i)

\* input.trim().to_lowercase(); !(input != "y" && input != "yes")
confirms(chars) ==
    LET input == [i \in 1..Len(trim(chars)) |-> char_to_lowercase(trim(chars)[i])]
    IN  input = <<"y">> \/ input = <<"y", "e", "s">>

\* match template_name { "rust" => RUST_TEMPLATE, _ => GENERIC_TEMPLATE }
template_contents(template_name) ==
    IF template_name = "rust" THEN "RUST_TEMPLATE" ELSE "GENERIC_TEMPLATE"

\* The lines read from stdin: whitespace and the letters of "yes"
Answers == UNION {[1..n -> Whitespace \cup {"y", "Y", "e", "s"}] : n \in 0..MaxAnswer}

\* atomic.toml is absent, holds what the user wrote, or holds a template.
InitInit ==
    /\ platform \in {"unix", "windows"}
    /\ disk = [exists |-> FALSE, parses |-> FALSE, doc |-> Tab(<<>>)]
    /\ cmd = "missing"
    /\ pc = "start"
    /\ stack = <<>>
    /\ trace = <<>>
    /\ resolver_idle
    /\ runner_idle
    /\ earlier = <<>>
    /\ autocommit = "none"
    /\ repo = NoRepo
    /\ branch = NoBranch
    /\ tui = NoTui
    /\ \E template_name \in {"rust", "default", "go"}, answer \in Answers,
          before \in {"absent", "user", "RUST_TEMPLATE"} :
          init = [state |-> "idle", template |-> template_name, answer |-> answer,
                  before |-> before, content |-> before]

\* start_init(template_name): the question is asked only when the file
\* exists; reading the answer may fail, File::create may fail and leave
\* the file as it was, write_all may fail after File::create emptied it.
StartInit ==
    /\ init.state = "idle"
    /\ \E io \in {"ok", "stdin failed", "create failed", "write failed"} :
          IF init.before # "absent" /\ io = "stdin failed"
          THEN init' = [init EXCEPT !.state = "failed"]
          ELSE IF init.before # "absent" /\ ~confirms(init.answer)
          THEN init' = [init EXCEPT !.state = "aborted"]
          ELSE IF io = "create failed"
          THEN init' = [init EXCEPT !.state = "failed"]
          ELSE IF io = "write failed"
          THEN init' = [init EXCEPT !.state = "failed", !.content = "empty"]
          ELSE init' = [init EXCEPT !.state = "created",
                                    !.content = template_contents(init.template)]
    /\ UNCHANGED <<platform, disk, engine_vars, resolver_vars, runner_vars, earlier,
                   autocommit, repo, branch, tui>>

SpecInit == InitInit /\ [][StartInit]_vars

\* C23: when atomic.toml exists before start_init, its content after
\* start_init has returned is its content before, whatever the template
\* and the answer.
C23_ExistingFileKept ==
    (init.state # "idle" /\ init.before # "absent") => init.content = init.before

-----------------------------------------------------------------------------
(* git.rs: summarize_and_push_commits.  The repository is the commits of
   HEAD since the merge-base with the base branch, oldest first, each a
   message and a tree, the index and the working tree; the tree of the
   merge-base is 0. *)

\* Commits since the merge-base a repository starts with, at most.
MaxCommits == 3

Trees == 0..2

Commit(message, tree) == [message |-> message, tree |-> tree]

\* The tree of HEAD
head_tree(commits) == IF commits = <<>> THEN 0 ELSE commits[Len(commits)].tree

\* The tree of the parent of HEAD
parent_tree(commits) == IF Len(commits) < 2 THEN 0 ELSE commits[Len(commits) - 1].tree

\* git rev-list --count base..HEAD
count_commits_since(r) == Len(r.commits)

\* git add -A
stage_all_changes(r) == [r EXCEPT !.index = r.worktree]

\* git commit -am message: exit 1 and no commit when nothing differs from
\* HEAD.
git_commit_am(r, message) ==
    IF r.worktree = head_tree(r.commits) THEN [exit |-> 1, repo |-> r]
    ELSE [exit |-> 0,
          repo |-> [r EXCEPT !.index = r.worktree,
                             !.commits = Append(r.commits, Commit(message, r.worktree))]]

\* git reset --soft base: HEAD moves to the merge-base, the index stays.
git_reset_soft(r) == [r EXCEPT !.commits = <<>>]

\* git commit --amend -m message: refused when the amended commit would
\* be empty.
git_commit_amend(r, message) ==
    IF r.index = parent_tree(r.commits) THEN [exit |-> 1, repo |-> r]
    ELSE [exit |-> 0,
          repo |-> [r EXCEPT !.commits = Append(SubSeq(r.commits, 1, Len(r.commits) - 1),
                                                Commit(message, r.index))]]

\* git push --force-with-lease
git_push_force(r) == [r EXCEPT !.remote = r.commits, !.pushes = r.pushes + 1]

GitOk(r) == [ok |-> TRUE, repo |-> r]

GitErr(r) == [ok |-> FALSE, repo |-> r]

\* commit_staged_changes: success and exit code 1 are both accepted.
commit_staged_changes(r, message, broken) ==
    IF broken = "commit" THEN GitErr(r)
    ELSE GitOk(git_commit_am(r, message).repo)

\* Mutant: the squashed commit is made without the soft reset.
squash_commits_no_reset(r, message, broken) ==
    IF broken = "reset" THEN GitErr(r)
    ELSE IF broken = "commit" \/ git_commit_am(r, message).exit # 0 THEN GitErr(r)
    ELSE GitOk(git_commit_am(r, message).repo)

\* squash_commits: soft reset to the merge-base, then one commit.
squash_commits(r, message, broken) ==
    IF broken = "reset" THEN GitErr(r)
    ELSE LET reset == git_reset_soft(r)
             commit == git_commit_am(reset, message)
         IN  IF broken = "commit" \/ commit.exit # 0 THEN GitErr(reset)
             ELSE GitOk(commit.repo)

\* amend_last_commit
amend_last_commit(r, message, broken) ==
    IF broken = "amend" \/ git_commit_amend(r, message).exit # 0 THEN GitErr(r)
    ELSE GitOk(git_commit_amend(r, message).repo)

\* force_push
force_push(r, broken) ==
    IF broken = "push" THEN GitErr(r) ELSE GitOk(git_push_force(r))

\* The Git commands one of which may fail for a reason outside the model
\* (not spawned, not a repository, lock held, hook, no upstream).
GitSteps == {"merge-base", "rev-list", "add", "commit", "reset", "amend", "push"}

\* summarize_and_push_commits(base_branch, message)
summarize_and_push_commits(r, message, broken) ==
    IF broken \in {"merge-base", "rev-list", "add"} THEN
        GitErr(r)
    ELSE
        LET staged == stage_all_changes(r)
            first == IF count_commits_since(staged) = 0
                     THEN commit_staged_changes(staged, message, broken)
                     ELSE GitOk(staged)
        IN  IF ~first.ok \/ count_commits_since(first.repo) = 0 THEN GitErr(first.repo)
            ELSE LET one == IF count_commits_since(first.repo) > 1
                            THEN squash_commits(first.repo, message, broken)
                            ELSE amend_last_commit(first.repo, message, broken)
                 IN  IF ~one.ok THEN one ELSE force_push(one.repo, broken)

Histories ==
    UNION {[1..n -> [message : {"wip", "summary"}, tree : Trees]] : n \in 0..MaxCommits}

RepoInit ==
    /\ platform \in {"unix", "windows"}
    /\ disk = [exists |-> FALSE, parses |-> FALSE, doc |-> Tab(<<>>)]
    /\ cmd = "missing"
    /\ pc = "start"
    /\ stack = <<>>
    /\ trace = <<>>
    /\ resolver_idle
    /\ runner_idle
    /\ earlier = <<>>
    /\ autocommit = "none"
    /\ init = NotInitialized
    /\ branch = NoBranch
    /\ tui = NoTui
    /\ \E commits \in Histories, worktree \in Trees, staged \in BOOLEAN,
          published \in BOOLEAN :
          repo = [state |-> "idle", before |-> commits, commits |-> commits,
                  index |-> IF staged THEN worktree ELSE head_tree(commits),
                  worktree |-> worktree, message |-> "summary",
                  remote |-> IF published THEN commits ELSE <<>>, pushes |-> 0]

Summarize ==
    /\ repo.state = "idle"
    /\ \E broken \in GitSteps \cup {"none"} :
          LET done == summarize_and_push_commits(repo, repo.message, broken)
          IN  repo' = [done.repo EXCEPT !.state = IF done.ok THEN "ok" ELSE "err"]
    /\ UNCHANGED <<platform, disk, engine_vars, resolver_vars, runner_vars, earlier,
                   autocommit, init, branch, tui>>

SpecRepo == RepoInit /\ [][Summarize]_vars

\* C24: when summarize_and_push_commits returns Ok, the branch holds
\* exactly one commit since the merge-base, that commit carries the given
\* message, and the branch as it is has been force-pushed, whatever the
\* number of commits it started with.
C24_OneCommitPushed ==
    repo.state = "ok" =>
        /\ Len(repo.commits) = 1
        /\ repo.commits[1].message = repo.message
        /\ repo.pushes = 1
        /\ repo.remote = repo.commits

\* Several commits with other messages were squashed into one.
C24_Witness ==
    /\ repo.state = "ok"
    /\ Len(repo.before) > 1
    /\ \A i \in 1..Len(repo.before) : repo.before[i].message # repo.message
    /\ repo.commits = <<Commit(repo.message, repo.worktree)>>

-----------------------------------------------------------------------------
(* git.rs: parse_branch_name.  A branch name is a sequence of characters. *)

\* Characters a branch name is made of, at most.
MaxName == 4

BranchNames == UNION {[1..n -> {"-", " ", "a", "b"}] : n \in 0..MaxName}

\* str::split('-'): the pieces between the delimiters, empty ones included
RECURSIVE split(_)
split(chars) ==
    LET dashes == {i \in 1..Len(chars) : chars[i] = "-"}
    IN  IF dashes = {} THEN <<chars>>
        ELSE LET first == CHOOSE i \in dashes : \A j \in dashes : i <= j
             IN  <<SubSeq(chars, 1, first - 1)>> \o split(SubSeq(chars, first + 1, Len(chars)))

\* Mutant: the empty pieces are kept.
parse_branch_name_keeps_empty(branch_name) ==
    IF trim(branch_name) = <<>> \/ \A i \in 1..Len(branch_name) : branch_name[i] = "-"
    THEN [ok |-> FALSE, parts |-> <<>>]
    ELSE [ok |-> TRUE, parts |-> split(branch_name)]

\* parse_branch_name(branch_name)
parse_branch_name(branch_name) ==
    IF trim(branch_name) = <<>> \/ \A i \in 1..Len(branch_name) : branch_name[i] = "-"
    THEN [ok |-> FALSE, parts |-> <<>>]
    ELSE [ok |-> TRUE, parts |-> SelectSeq(split(branch_name), LAMBDA piece : piece # <<>>)]

BranchInit ==
    /\ platform \in {"unix", "windows"}
    /\ disk = [exists |-> FALSE, parses |-> FALSE, doc |-> Tab(<<>>)]
    /\ cmd = "missing"
    /\ pc = "start"
    /\ stack = <<>>
    /\ trace = <<>>
    /\ resolver_idle
    /\ runner_idle
    /\ earlier = <<>>
    /\ autocommit = "none"
    /\ init = NotInitialized
    /\ repo = NoRepo
    /\ tui = NoTui
    /\ \E branch_name \in BranchNames :
          branch = [done |-> FALSE, name |-> branch_name, ok |-> FALSE, parts |-> <<>>]

ParseBranch ==
    /\ ~branch.done
    /\ branch' = [branch EXCEPT !.done = TRUE,
                                !.ok = parse_branch_name(branch.name).ok,
                                !.parts = parse_branch_name(branch.name).parts]
    /\ UNCHANGED <<platform, disk, engine_vars, resolver_vars, runner_vars, earlier,
                   autocommit, init, repo, tui>>

SpecBranch == BranchInit /\ [][ParseBranch]_vars

\* The positions where a maximal run of characters other than '-' starts
RunStarts(chars) ==
    {i \in 1..Len(chars) : chars[i] # "-" /\ (i = 1 \/ chars[i - 1] = "-")}

\* The end of the run that starts at position i
RunEnd(chars, i) ==
    CHOOSE j \in i..Len(chars) :
        /\ \A k \in i..j : chars[k] # "-"
        /\ j = Len(chars) \/ chars[j + 1] = "-"

\* The maximal runs of characters other than '-', in the order of the name
MaximalRuns(chars) ==
    LET starts == RunStarts(chars)
        nth(n) == CHOOSE i \in starts : Cardinality({j \in starts : j < i}) = n - 1
    IN  [n \in 1..Cardinality(starts) |-> SubSeq(chars, nth(n), RunEnd(chars, nth(n)))]

OnlyDashes(chars) == \A i \in 1..Len(chars) : chars[i] = "-"

-----------------------------------------------------------------------------
(* Claims about the log file of run_plugin_silent *)

\* C26: in silent mode every line of the log file is one complete record
\* of a single stream: the pieces a drain thread writes for one record are
\* next to each other, never separated by a piece of the other thread.
C26_RecordsWhole ==
    \A i \in 1..Len(logfile) :
        /\ logfile[i].part = "head" /\ i < Len(logfile) =>
              logfile[i + 1] = Fragment(logfile[i].stream, "tail", logfile[i].n)
        /\ logfile[i].part = "tail" =>
              i > 1 /\ logfile[i - 1] = Fragment(logfile[i].stream, "head", logfile[i].n)

-----------------------------------------------------------------------------
(* run_plugin with a plugin process that writes MaxLines lines to each of
   its streams, in any order, and then exits *)

\* The plugin process exits once it has written all of its output.
ChildFinish ==
    /\ child.state = "running"
    /\ \A s \in Streams : Len(child.sent[s]) = MaxLines
    /\ \E code \in ExitCodes :
          child' = [child EXCEPT !.state = "exited", !.open = FALSE,
                                 !.status = Exited(code)]
    /\ UNCHANGED <<fixed_vars, ppc, pipe, drain, terminal, logfile, status, result>>

ChildStep ==
    \/ \E s \in Streams : ChildWrite(s)
    \/ \E s \in Streams : ChildSigpipe(s)
    \/ ChildFinish

\* run_plugin("fmt") on one platform, with the scripts in place
PluginLiveInit ==
    /\ PluginInit
    /\ platform = "unix"
    /\ plugin = "fmt"
    /\ files # {}

\* The main thread of run_plugin once the plugin process is spawned
MainStep == StartDrains \/ MainStatus \/ MainReturn

\* The thread that drains stream s
DrainStep(s) == DrainRead(s) \/ DrainWrite(s) \/ DrainEOF(s)

LiveNext ==
    \/ PluginInvoke
    \/ MainStep
    \/ ChildStep
    \/ \E s \in Streams : DrainStep(s)

\* The main thread, the two drain threads and the plugin process are
\* scheduled by the operating system: each takes its next step when it
\* stays able to.
SpecPluginLive ==
    /\ PluginLiveInit
    /\ [][LiveNext]_vars
    /\ WF_vars(MainStep)
    /\ WF_vars(ChildStep)
    /\ \A s \in Streams : WF_vars(DrainStep(s))

\* C27: draining is free of deadlock: a plugin process that writes a
\* finite output through its bounded pipes is never blocked for ever and
\* exits, and run_plugin returns.
C27_NoDeadlock ==
    /\ (child.state = "running") ~> (child.state = "exited")
    /\ (ppc = "spawned") ~> result.done

\* Both streams carried more lines than a pipe holds, and run_plugin
\* returned after both drains reached the end.
C27_Witness ==
    /\ result.done
    /\ ppc = "returned"
    /\ child.state = "exited"
    /\ \A s \in Streams :
          /\ drain[s] = "done"
          /\ Len(child.sent[s]) > child.cap
          /\ \A i \in 1..Len(child.sent[s]) : child.sent[s][i].utf8

-----------------------------------------------------------------------------
(* run_command while atomic.toml is rewritten by another process *)

\* What the file is rewritten to
EditedFiles ==
    {[exists |-> FALSE, parses |-> FALSE, doc |-> Tab(<<>>)],
     [exists |-> TRUE, parses |-> FALSE, doc |-> Tab(<<>>)]}
    \cup {[exists |-> TRUE, parses |-> TRUE, doc |-> d] :
            d \in {DocCustomCI, DocRootCI, DocHooks, DocStrings}}

\* Between two elements of the top-level chain the file is rewritten, once.
EditFile ==
    /\ pc = "running"
    /\ stack # <<>>
    /\ disk = [exists |-> TRUE, parses |-> TRUE, doc |-> stack[1].toml]
    /\ disk' \in EditedFiles \ {disk}
    /\ UNCHANGED <<platform, cmd, pc, stack, trace, resolver_vars, runner_vars, other_vars>>

SpecEdit == Init /\ [][Next \/ EditFile]_vars

\* C28: while a top-level run goes through its chain, every run_command
\* call made so far found what the name resolves to in the document the
\* top-level call loaded: a change of the file during the run does not
\* alter the remaining steps.
C28_SameDocument ==
    (pc = "running" /\ stack # <<>>) =>
        \A i \in 1..Len(trace) :
            (trace[i].ev = "run_command" /\ trace[i].out # "overflow") =>
                trace[i].out =
                    run_command(trace[i].text,
                                [exists |-> TRUE, parses |-> TRUE,
                                 doc |-> stack[1].toml]).plan.kind

-----------------------------------------------------------------------------
\* C29: a send_command call with an empty or whitespace-only string spawns
\* no process and is no error, and the steps after it still run: the run
\* does not end at it and a finished run has made all the calls of its
\* plan.
C29_BlankIsNoOp ==
    /\ \A i \in 1..Len(Sends) :
          is_blank(Sends[i].text) => Sends[i].out = "blank" /\ Sends[i].line = ""
    /\ (pc = "panicked" /\ trace # <<>>) => ~is_blank(trace[Len(trace)].text)
    /\ (pc = "done" /\ \E i \in 1..Len(Sends) : is_blank(Sends[i].text)) =>
          Texts(Sends) = PlanOf(cmd, 0)

\* A finished run made a blank call and after it a call that spawned a
\* shell.
C29_Witness ==
    /\ pc = "done"
    /\ \E i \in 1..Len(Sends) : \E j \in (i + 1)..Len(Sends) :
          /\ is_blank(Sends[i].text)
          /\ Sends[i].out = "blank"
          /\ Sends[j].out = "exit0"
          /\ Sends[j].line # ""

-----------------------------------------------------------------------------
(* tui.rs: start_tui.  `selected` is a usize; commands.len() - 1 panics on
   underflow in a build with overflow checks (debug) and wraps in one
   without (release). *)

\* Commands in the list, at most.
MaxCommands == 5

\* Bits of a usize in the model.
UsizeBits == 4

UsizeMax == 2 ^ UsizeBits - 1

\* a - b on usize: the difference, or on underflow a panic or the wrapped
\* difference, by build
usize_sub(a, b, build) ==
    IF a >= b THEN [panics |-> FALSE, v |-> a - b]
    ELSE IF build = "debug" THEN [panics |-> TRUE, v |-> 0]
    ELSE [panics |-> FALSE, v |-> a + UsizeMax + 1 - b]

TuiInit ==
    /\ platform \in {"unix", "windows"}
    /\ disk = [exists |-> FALSE, parses |-> FALSE, doc |-> Tab(<<>>)]
    /\ cmd = "missing"
    /\ pc = "start"
    /\ stack = <<>>
    /\ trace = <<>>
    /\ resolver_idle
    /\ runner_idle
    /\ earlier = <<>>
    /\ autocommit = "none"
    /\ init = NotInitialized
    /\ repo = NoRepo
    /\ branch = NoBranch
    /\ \E build \in {"debug", "release"}, len \in 0..MaxCommands :
          tui = [NoTui EXCEPT !.build = build, !.len = len]

tui_unchanged ==
    UNCHANGED <<platform, disk, engine_vars, resolver_vars, runner_vars, earlier,
                autocommit, init, repo, branch>>

\* start_tui up to the loop: let mut selected = 0
StartTui ==
    /\ tui.state = "idle"
    /\ tui' = [tui EXCEPT !.state = "running", !.selected = 0]
    /\ tui_unchanged

\* KeyCode::Down
KeyDown ==
    /\ tui.state = "running"
    /\ LET last == usize_sub(tui.len, 1, tui.build)
       IN  tui' = IF last.panics THEN [tui EXCEPT !.state = "panicked"]
                  ELSE [tui EXCEPT !.selected = IF tui.selected >= last.v THEN 0
                                                ELSE tui.selected + 1]
    /\ tui_unchanged

\* KeyCode::Up
KeyUp ==
    /\ tui.state = "running"
    /\ LET last == usize_sub(tui.len, 1, tui.build)
       IN  tui' = IF tui.selected # 0 THEN [tui EXCEPT !.selected = tui.selected - 1]
                  ELSE IF last.panics THEN [tui EXCEPT !.state = "panicked"]
                  ELSE [tui EXCEPT !.selected = last.v]
    /\ tui_unchanged

\* KeyCode::Enter: &commands[selected] panics out of bounds; show_popup
KeyEnter ==
    /\ tui.state = "running"
    /\ tui' = IF tui.selected >= tui.len THEN [tui EXCEPT !.state = "panicked"]
              ELSE [tui EXCEPT !.popup = tui.selected, !.shown = TRUE]
    /\ tui_unchanged

\* KeyCode::Char('q')
KeyQuit ==
    /\ tui.state = "running"
    /\ tui' = [tui EXCEPT !.state = "quit"]
    /\ tui_unchanged

TuiNext == StartTui \/ KeyDown \/ KeyUp \/ KeyEnter \/ KeyQuit

SpecTui == TuiInit /\ [][TuiNext]_vars

\* C30: after any sequence of Up, Down and Enter the selected index is an
\* index of the list, 0 <= selected < commands.len(), for every length of
\* the list, the empty list and the list of one included, and no key ends
\* the dashboard with a panic.
C30_SelectedValid ==
    tui.state # "idle" =>
        /\ tui.state # "panicked"
        /\ tui.selected < tui.len

====
